---- MODULE Spec2Model ----
(***************************************************************************)
(* Model of windows/native_window.cpp: the NativeWindow adapter and the    *)
(* part of the window manager it drives.                                   *)
(*                                                                         *)
(* The adapter's own fields (last_state, minimum_size, maximum_size,       *)
(* g_is_window_fullscreen, g_frame_before_fullscreen) are the record `ad`. *)
(* The top-level window the adapter manipulates is the record `win`: its   *)
(* GWL_STYLE bits, its WS_EX_TOPMOST bit, its screen rectangle, the        *)
(* rcNormalPosition of its placement and its title.  Each member function  *)
(* is an operator from (win, ad, args) to an outcome, and one action.      *)
(*                                                                         *)
(* Environment assumptions (the window manager is not part of the source): *)
(*  - the window handle is valid, so every API call succeeds;              *)
(*  - GetWindowPlacement fills the whole WINDOWPLACEMENT, showCmd being    *)
(*    SW_SHOWMINIMIZED, SW_SHOWMAXIMIZED or SW_SHOWNORMAL by the           *)
(*    WS_MINIMIZE / WS_MAXIMIZE style bits;                                *)
(*  - SetWindowLong(GWL_STYLE) replaces all style bits, WS_MINIMIZE and    *)
(*    WS_MAXIMIZE included, and does not move the window;                  *)
(*  - SetWindowPos places the window exactly where asked (no window        *)
(*    procedure clamps the size); rcNormalPosition follows the rectangle   *)
(*    while the window is neither minimized nor maximized;                 *)
(*  - showing a window SW_SHOWNORMAL puts it at rcNormalPosition in the    *)
(*    normal state, whatever it was before it was minimized;               *)
(*  - one monitor; a maximized window without WS_THICKFRAME covers the     *)
(*    monitor, one with it covers the work area;                           *)
(*  - activation and z-order other than the topmost bit are not state;     *)
(*  - devicePixelRatio is positive and the width and height given to       *)
(*    SetBounds are not negative.                                          *)
(* An exception that leaves a handler is recorded with the call; what the  *)
(* caller of the handler does with it is outside this file.                *)
(* A double is modelled as an exact fraction <<n, d>> in lowest terms.     *)
(***************************************************************************)
EXTENDS Integers, Sequences, FiniteSets, TLC

VARIABLES win, ad, alive, pendingShow, last, pre, prev, prev2

vars == <<win, ad, alive, pendingShow, last, pre, prev, prev2>>

(***************************************************************************)
(* Bounds of the model.                                                    *)
(***************************************************************************)
\* devicePixelRatio ranges over k/2 for k in 3..MaxRatioHalves (1.5, 2).
MaxRatioHalves == 4
\* ShowWindowAsync requests that may be waiting in the message queue.
MaxPending == 1

(***************************************************************************)
(* Program constants.                                                      *)
(***************************************************************************)
STATE_NORMAL == 0
SW_HIDE == 0
SW_NORMAL == 1
SW_SHOWMINIMIZED == 2
SW_MAXIMIZE == 3
SW_SHOW == 5
\* the names GetWindowPlacement reports by, equal to SW_NORMAL and SW_MAXIMIZE
SW_SHOWNORMAL == 1
SW_SHOWMAXIMIZED == 3
SW_RESTORE == 9

WS_CAPTION == {"WS_BORDER", "WS_DLGFRAME"}
WS_OVERLAPPEDWINDOW ==
    WS_CAPTION \cup {"WS_SYSMENU", "WS_THICKFRAME", "WS_MINIMIZEBOX", "WS_MAXIMIZEBOX"}

(***************************************************************************)
(* double: exact fractions.                                                *)
(***************************************************************************)
RECURSIVE Gcd(_, _)
Gcd(a, b) == IF b = 0 THEN a ELSE Gcd(b, a % b)

Abs(n) == IF n < 0 THEN -n ELSE n

\* the fraction n/d (d # 0) in lowest terms with a positive denominator
Frac(n, d) ==
    LET g == Gcd(Abs(n), Abs(d))
        s == IF d < 0 THEN -1 ELSE 1
    IN  <<(s * n) \div g, (s * d) \div g>>

FromInt(n) == <<n, 1>>
FMul(a, b) == Frac(a[1] * b[1], a[2] * b[2])
FDiv(a, b) == Frac(a[1] * b[2], a[2] * b[1])
FGeqZero(a) == a[1] >= 0

\* int(x), static_cast<LONG>(x): truncation toward zero
Trunc(a) == IF a[1] >= 0 THEN a[1] \div a[2] ELSE -((-a[1]) \div a[2])

(***************************************************************************)
(* flutter::EncodableValue / flutter::EncodableMap.  A value carries its   *)
(* alternative in t; the fields of the other alternatives are padding.     *)
(***************************************************************************)
BoolV(b) == [t |-> "bool", b |-> b, d |-> <<0, 1>>, s |-> ""]
DoubleV(f) == [t |-> "double", b |-> FALSE, d |-> f, s |-> ""]
StringV(s) == [t |-> "string", b |-> FALSE, d |-> <<0, 1>>, s |-> s]

EmptyMap == [k \in {} |-> BoolV(FALSE)]

\* std::get<T>(args.at(EncodableValue(key))): what the expression throws.
\* map::at throws std::out_of_range for an absent key, std::get throws
\* std::bad_variant_access when the value holds another alternative.
GetThrows(args, key, type) ==
    IF key \notin DOMAIN args THEN "std::out_of_range"
    ELSE IF args[key].t # type THEN "std::bad_variant_access"
    ELSE "none"

\* the first exception thrown by the extractions reqs = <<key, type>>, ... in
\* the order the handler performs them
RECURSIVE FirstThrow(_, _)
FirstThrow(args, reqs) ==
    IF reqs = <<>> THEN "none"
    ELSE LET e == GetThrows(args, Head(reqs)[1], Head(reqs)[2])
         IN  IF e # "none" THEN e ELSE FirstThrow(args, Tail(reqs))

(***************************************************************************)
(* The window manager: RECT, the monitor, and the API calls the adapter    *)
(* makes on the main window.                                               *)
(***************************************************************************)
Rect(l, t, r, b) == [left |-> l, top |-> t, right |-> r, bottom |-> b]

\* info.rcMonitor of the nearest monitor
MonitorRect == Rect(0, 0, 1920, 1080)
\* the work area of the monitor
WorkRect == Rect(0, 0, 1920, 1040)
\* where the window manager parks a minimized window
MinimizedRect == Rect(-32000, -32000, -31840, -31972)

MaximizedRect(style) ==
    IF "WS_THICKFRAME" \in style THEN WorkRect ELSE MonitorRect

IsIconic(w) == "WS_MINIMIZE" \in w.style
IsZoomed(w) == "WS_MAXIMIZE" \in w.style

GetWindowRect(w) == w.rect

GetWindowPlacement(w) ==
    [showCmd |-> IF IsIconic(w) THEN SW_SHOWMINIMIZED
                 ELSE IF IsZoomed(w) THEN SW_SHOWMAXIMIZED
                 ELSE SW_SHOWNORMAL,
     rcNormalPosition |-> w.rcNormal]

SetWindowLong(w, style) == [w EXCEPT !.style = style]

ShowWindow(w, cmd) ==
    LET shown == w.style \cup {"WS_VISIBLE"} IN
    CASE cmd = SW_HIDE -> [w EXCEPT !.style = w.style \ {"WS_VISIBLE"}]
      [] cmd = SW_SHOW -> [w EXCEPT !.style = shown]
      [] cmd = SW_SHOWMINIMIZED ->
            IF IsIconic(w) THEN [w EXCEPT !.style = shown]
            ELSE [w EXCEPT !.style = (shown \ {"WS_MAXIMIZE"}) \cup {"WS_MINIMIZE"},
                           !.rect = MinimizedRect]
      [] cmd = SW_SHOWMAXIMIZED ->
            IF IsZoomed(w) /\ ~IsIconic(w) THEN [w EXCEPT !.style = shown]
            ELSE [w EXCEPT !.style = (shown \ {"WS_MINIMIZE"}) \cup {"WS_MAXIMIZE"},
                           !.rect = MaximizedRect(w.style)]
      [] cmd \in {SW_SHOWNORMAL, SW_RESTORE} ->
            IF IsIconic(w) \/ IsZoomed(w)
            THEN [w EXCEPT !.style = shown \ {"WS_MINIMIZE", "WS_MAXIMIZE"},
                           !.rect = w.rcNormal]
            ELSE [w EXCEPT !.style = shown]
      [] OTHER -> w

\* SetWindowPos(hwnd, after, x, y, cx, cy, flags); after is "HWND_TOP" (also
\* NULL), "HWND_TOPMOST" or "HWND_NOTOPMOST", flags a set of SWP_ names.
SetWindowPos(w, after, x, y, cx, cy, flags) ==
    LET keep == {"SWP_NOMOVE", "SWP_NOSIZE"} \subseteq flags
        r == Rect(x, y, x + cx, y + cy)
    IN  [w EXCEPT
           !.rect = IF keep THEN @ ELSE r,
           !.rcNormal = IF keep \/ IsIconic(w) \/ IsZoomed(w) THEN @ ELSE r,
           !.style = IF "SWP_SHOWWINDOW" \in flags THEN @ \cup {"WS_VISIBLE"} ELSE @,
           !.topmost = CASE after = "HWND_TOPMOST" -> TRUE
                         [] after = "HWND_NOTOPMOST" -> FALSE
                         [] OTHER -> @]

SetWindowPlacement(w, wp) ==
    LET placed == [w EXCEPT
                     !.rcNormal = wp.rcNormalPosition,
                     !.rect = IF IsIconic(w) \/ IsZoomed(w) THEN @
                              ELSE wp.rcNormalPosition]
    IN  ShowWindow(placed, wp.showCmd)

(***************************************************************************)
(* NativeWindow.  An outcome is the window and the adapter after the call, *)
(* the value returned, the exception that left the handler ("none" when it *)
(* returned) and whether the handler called SetWindowPlacement.            *)
(***************************************************************************)
Void == [kind |-> "void", b |-> FALSE, s |-> "", m |-> EmptyMap]
BoolRet(b) == [kind |-> "bool", b |-> b, s |-> "", m |-> EmptyMap]
StringRet(s) == [kind |-> "string", b |-> FALSE, s |-> s, m |-> EmptyMap]
MapRet(m) == [kind |-> "map", b |-> FALSE, s |-> "", m |-> m]

Returns(w, a, ret, wrote) ==
    [win |-> w, ad |-> a, ret |-> ret, thrown |-> "none", wrote |-> wrote]
Throws(w, a, e) ==
    [win |-> w, ad |-> a, ret |-> Void, thrown |-> e, wrote |-> FALSE]

POINT(x, y) == [x |-> x, y |-> y]

\* the fields of a freshly constructed NativeWindow; g_frame_before_fullscreen
\* has no initializer, so it holds whatever `garbage` was in memory
NativeWindow(garbage) ==
    [last_state |-> STATE_NORMAL,
     minimum_size |-> POINT(0, 0),
     maximum_size |-> POINT(-1, -1),
     g_is_window_fullscreen |-> FALSE,
     g_frame_before_fullscreen |-> garbage]

Focus(w, a) == Returns(w, a, Void, FALSE)

Blur(w, a) == Returns(w, a, Void, FALSE)

Hide(w, a) == Returns(ShowWindow(w, SW_HIDE), a, Void, FALSE)

IsVisible(w, a) == Returns(w, a, BoolRet("WS_VISIBLE" \in w.style), FALSE)

IsMaximized(w, a) ==
    Returns(w, a, BoolRet(GetWindowPlacement(w).showCmd = SW_MAXIMIZE), FALSE)

\* Maximize without the showCmd test
MaximizeAlways(w, a) ==
    LET windowPlacement == GetWindowPlacement(w) IN
    Returns(SetWindowPlacement(w, [windowPlacement EXCEPT !.showCmd = SW_MAXIMIZE]),
            a, Void, TRUE)

Maximize(w, a) ==
    LET windowPlacement == GetWindowPlacement(w) IN
    IF windowPlacement.showCmd # SW_MAXIMIZE
    THEN Returns(SetWindowPlacement(w, [windowPlacement EXCEPT !.showCmd = SW_MAXIMIZE]),
                 a, Void, TRUE)
    ELSE Returns(w, a, Void, FALSE)

Unmaximize(w, a) ==
    LET windowPlacement == GetWindowPlacement(w) IN
    IF windowPlacement.showCmd # SW_NORMAL
    THEN Returns(SetWindowPlacement(w, [windowPlacement EXCEPT !.showCmd = SW_NORMAL]),
                 a, Void, TRUE)
    ELSE Returns(w, a, Void, FALSE)

IsMinimized(w, a) ==
    Returns(w, a, BoolRet(GetWindowPlacement(w).showCmd = SW_SHOWMINIMIZED), FALSE)

Minimize(w, a) ==
    LET windowPlacement == GetWindowPlacement(w) IN
    IF windowPlacement.showCmd # SW_SHOWMINIMIZED
    THEN Returns(SetWindowPlacement(w, [windowPlacement EXCEPT !.showCmd = SW_SHOWMINIMIZED]),
                 a, Void, TRUE)
    ELSE Returns(w, a, Void, FALSE)

\* Restore writing the zero rectangle as the normal position
RestoreToOrigin(w, a) ==
    LET windowPlacement == GetWindowPlacement(w) IN
    IF windowPlacement.showCmd # SW_NORMAL
    THEN Returns(SetWindowPlacement(w, [showCmd |-> SW_NORMAL,
                                        rcNormalPosition |-> Rect(0, 0, 0, 0)]),
                 a, Void, TRUE)
    ELSE Returns(w, a, Void, FALSE)

Restore(w, a) ==
    LET windowPlacement == GetWindowPlacement(w) IN
    IF windowPlacement.showCmd # SW_NORMAL
    THEN Returns(SetWindowPlacement(w, [windowPlacement EXCEPT !.showCmd = SW_NORMAL]),
                 a, Void, TRUE)
    ELSE Returns(w, a, Void, FALSE)

IsFullScreen(w, a) == Returns(w, a, BoolRet(a.g_is_window_fullscreen), FALSE)

\* EnterFullScreen reading the window rectangle after the move to the monitor
EnterFullScreenLateCapture(w, a) ==
    LET info == MonitorRect
        styled == SetWindowLong(w, {"WS_POPUP", "WS_VISIBLE"})
        moved == SetWindowPos(styled, "HWND_TOP", info.left, info.top,
                              info.right - info.left, info.bottom - info.top,
                              {"SWP_SHOWWINDOW"})
        frame == GetWindowRect(moved)
    IN  Returns(ShowWindow(moved, SW_MAXIMIZE),
                [a EXCEPT !.g_frame_before_fullscreen = frame], Void, FALSE)

\* EnterFullScreen also setting the flag
EnterFullScreenSetsFlag(w, a) ==
    LET info == MonitorRect
        styled == SetWindowLong(w, {"WS_POPUP", "WS_VISIBLE"})
        frame == GetWindowRect(styled)
        moved == SetWindowPos(styled, "HWND_TOP", info.left, info.top,
                              info.right - info.left, info.bottom - info.top,
                              {"SWP_SHOWWINDOW"})
    IN  Returns(ShowWindow(moved, SW_MAXIMIZE),
                [a EXCEPT !.g_frame_before_fullscreen = frame,
                          !.g_is_window_fullscreen = TRUE], Void, FALSE)

\* EnterFullScreen keeping the rectangle of the first entry while the window
\* is already borderless
EnterFullScreenKeepFirst(w, a) ==
    LET info == MonitorRect
        styled == SetWindowLong(w, {"WS_POPUP", "WS_VISIBLE"})
        frame == IF "WS_POPUP" \in w.style THEN a.g_frame_before_fullscreen
                 ELSE GetWindowRect(styled)
        moved == SetWindowPos(styled, "HWND_TOP", info.left, info.top,
                              info.right - info.left, info.bottom - info.top,
                              {"SWP_SHOWWINDOW"})
    IN  Returns(ShowWindow(moved, SW_MAXIMIZE),
                [a EXCEPT !.g_frame_before_fullscreen = frame], Void, FALSE)

\* the isFullScreen branch, lines 172-183
EnterFullScreen(w, a) ==
    LET info == MonitorRect
        styled == SetWindowLong(w, {"WS_POPUP", "WS_VISIBLE"})
        frame == GetWindowRect(styled)
        moved == SetWindowPos(styled, "HWND_TOP", info.left, info.top,
                              info.right - info.left, info.bottom - info.top,
                              {"SWP_SHOWWINDOW"})
    IN  Returns(ShowWindow(moved, SW_MAXIMIZE),
                [a EXCEPT !.g_frame_before_fullscreen = frame], Void, FALSE)

\* the else branch, lines 186-194
ExitFullScreen(w, a) ==
    LET frame == a.g_frame_before_fullscreen
        styled == SetWindowLong(w, WS_OVERLAPPEDWINDOW \cup {"WS_VISIBLE"})
        moved == SetWindowPos(styled, "HWND_TOP", frame.left, frame.top,
                              frame.right - frame.left, frame.bottom - frame.top,
                              {"SWP_SHOWWINDOW"})
    IN  Returns(ShowWindow(moved, SW_RESTORE),
                [a EXCEPT !.g_is_window_fullscreen = FALSE], Void, FALSE)

SetFullScreen(w, a, args) ==
    LET e == FirstThrow(args, <<<<"isFullScreen", "bool">>>>) IN
    IF e # "none" THEN Throws(w, a, e)
    ELSE IF args["isFullScreen"].b THEN EnterFullScreen(w, a)
    ELSE ExitFullScreen(w, a)

GetBounds(w, a, args) ==
    LET e == FirstThrow(args, <<<<"devicePixelRatio", "double">>>>) IN
    IF e # "none" THEN Throws(w, a, e)
    ELSE LET devicePixelRatio == args["devicePixelRatio"].d
             rect == GetWindowRect(w)
             x == FDiv(FromInt(rect.left), devicePixelRatio)
             y == FDiv(FromInt(rect.top), devicePixelRatio)
             width == FDiv(FromInt(rect.right - rect.left), devicePixelRatio)
             height == FDiv(FromInt(rect.bottom - rect.top), devicePixelRatio)
         IN  Returns(w, a,
                     MapRet([k \in {"x", "y", "width", "height"} |->
                               CASE k = "x" -> DoubleV(x)
                                 [] k = "y" -> DoubleV(y)
                                 [] k = "width" -> DoubleV(width)
                                 [] k = "height" -> DoubleV(height)]),
                     FALSE)

\* SetBounds keeping the size within the stored minimum and maximum
SetBoundsClamped(w, a, args) ==
    LET e == FirstThrow(args, <<<<"devicePixelRatio", "double">>, <<"x", "double">>,
                                <<"y", "double">>, <<"width", "double">>,
                                <<"height", "double">>>>)
        Clamp(v, lo, hi) == IF v < lo THEN lo
                            ELSE IF hi >= 0 /\ v > hi THEN hi ELSE v
    IN
    IF e # "none" THEN Throws(w, a, e)
    ELSE LET devicePixelRatio == args["devicePixelRatio"].d IN
         Returns(SetWindowPos(w, "HWND_TOP",
                              Trunc(FMul(args["x"].d, devicePixelRatio)),
                              Trunc(FMul(args["y"].d, devicePixelRatio)),
                              Clamp(Trunc(FMul(args["width"].d, devicePixelRatio)),
                                    a.minimum_size.x, a.maximum_size.x),
                              Clamp(Trunc(FMul(args["height"].d, devicePixelRatio)),
                                    a.minimum_size.y, a.maximum_size.y),
                              {"SWP_SHOWWINDOW"}),
                 a, Void, FALSE)

\* SetBounds passing the logical values on without scaling them
SetBoundsUnscaled(w, a, args) ==
    LET e == FirstThrow(args, <<<<"devicePixelRatio", "double">>, <<"x", "double">>,
                                <<"y", "double">>, <<"width", "double">>,
                                <<"height", "double">>>>) IN
    IF e # "none" THEN Throws(w, a, e)
    ELSE Returns(SetWindowPos(w, "HWND_TOP",
                              Trunc(args["x"].d), Trunc(args["y"].d),
                              Trunc(args["width"].d), Trunc(args["height"].d),
                              {"SWP_SHOWWINDOW"}),
                 a, Void, FALSE)

SetBounds(w, a, args) ==
    LET e == FirstThrow(args, <<<<"devicePixelRatio", "double">>, <<"x", "double">>,
                                <<"y", "double">>, <<"width", "double">>,
                                <<"height", "double">>>>) IN
    IF e # "none" THEN Throws(w, a, e)
    ELSE LET devicePixelRatio == args["devicePixelRatio"].d IN
         Returns(SetWindowPos(w, "HWND_TOP",
                              Trunc(FMul(args["x"].d, devicePixelRatio)),
                              Trunc(FMul(args["y"].d, devicePixelRatio)),
                              Trunc(FMul(args["width"].d, devicePixelRatio)),
                              Trunc(FMul(args["height"].d, devicePixelRatio)),
                              {"SWP_SHOWWINDOW"}),
                 a, Void, FALSE)

\* ScaledSize storing the pair when either of width and height is non-negative
ScaledSizeEither(old, width, height, devicePixelRatio) ==
    IF FGeqZero(width) \/ FGeqZero(height)
    THEN POINT(Trunc(FMul(width, devicePixelRatio)),
               Trunc(FMul(height, devicePixelRatio)))
    ELSE old

\* lines 239-243 and 252-256: the pair stored for (width, height), or old
ScaledSize(old, width, height, devicePixelRatio) ==
    IF FGeqZero(width) /\ FGeqZero(height)
    THEN POINT(Trunc(FMul(width, devicePixelRatio)),
               Trunc(FMul(height, devicePixelRatio)))
    ELSE old

SizeReqs == <<<<"devicePixelRatio", "double">>, <<"width", "double">>,
              <<"height", "double">>>>

SetMinimumSize(w, a, args) ==
    LET e == FirstThrow(args, SizeReqs) IN
    IF e # "none" THEN Throws(w, a, e)
    ELSE Returns(w,
                 [a EXCEPT !.minimum_size =
                    ScaledSize(@, args["width"].d, args["height"].d,
                               args["devicePixelRatio"].d)],
                 Void, FALSE)

SetMaximumSize(w, a, args) ==
    LET e == FirstThrow(args, SizeReqs) IN
    IF e # "none" THEN Throws(w, a, e)
    ELSE Returns(w,
                 [a EXCEPT !.maximum_size =
                    ScaledSize(@, args["width"].d, args["height"].d,
                               args["devicePixelRatio"].d)],
                 Void, FALSE)

IsAlwaysOnTop(w, a) == Returns(w, a, BoolRet(w.topmost), FALSE)

\* SetAlwaysOnTop without SWP_NOMOVE | SWP_NOSIZE
SetAlwaysOnTopMoves(w, a, args) ==
    LET e == FirstThrow(args, <<<<"isAlwaysOnTop", "bool">>>>) IN
    IF e # "none" THEN Throws(w, a, e)
    ELSE Returns(SetWindowPos(w, IF args["isAlwaysOnTop"].b THEN "HWND_TOPMOST"
                                 ELSE "HWND_NOTOPMOST",
                              0, 0, 0, 0, {}),
                 a, Void, FALSE)

SetAlwaysOnTop(w, a, args) ==
    LET e == FirstThrow(args, <<<<"isAlwaysOnTop", "bool">>>>) IN
    IF e # "none" THEN Throws(w, a, e)
    ELSE Returns(SetWindowPos(w, IF args["isAlwaysOnTop"].b THEN "HWND_TOPMOST"
                                 ELSE "HWND_NOTOPMOST",
                              0, 0, 0, 0, {"SWP_NOMOVE", "SWP_NOSIZE"}),
                 a, Void, FALSE)

GetTitle(w, a) == Returns(w, a, StringRet(w.title), FALSE)

SetTitle(w, a, args) ==
    LET e == FirstThrow(args, <<<<"title", "string">>>>) IN
    IF e # "none" THEN Throws(w, a, e)
    ELSE LET titled == [w EXCEPT !.title = args["title"].s] IN
         Returns(SetWindowLong(titled, titled.style \ WS_CAPTION), a, Void, FALSE)

\* the interactive move SC_MOVE starts: the user drops the window with its
\* top-left corner at p; a minimized or maximized window is not moved
StartDragging(w, a, p) ==
    IF IsIconic(w) \/ IsZoomed(w) THEN Returns(w, a, Void, FALSE)
    ELSE Returns(SetWindowPos(w, "HWND_TOP", p[1], p[2],
                              w.rect.right - w.rect.left,
                              w.rect.bottom - w.rect.top, {}),
                 a, Void, FALSE)

(***************************************************************************)
(* Inputs: the argument maps the host sends.                               *)
(***************************************************************************)
Ratios == {Frac(k, 2) : k \in 3..MaxRatioHalves}

\* the logical rectangle given to SetBounds; at ratio 1.5 its scaled values
\* are not integers, at ratio 2 they are
LogicalRect == [x |-> 25, y |-> -25, width |-> 200, height |-> 150]

BoundsArgs(r, l) ==
    [k \in {"devicePixelRatio", "x", "y", "width", "height"} |->
       CASE k = "devicePixelRatio" -> DoubleV(r)
         [] k = "x" -> DoubleV(FromInt(l.x))
         [] k = "y" -> DoubleV(FromInt(l.y))
         [] k = "width" -> DoubleV(FromInt(l.width))
         [] k = "height" -> DoubleV(FromInt(l.height))]

SizeArgs(r, width, height) ==
    [k \in {"devicePixelRatio", "width", "height"} |->
       CASE k = "devicePixelRatio" -> DoubleV(r)
         [] k = "width" -> DoubleV(FromInt(width))
         [] k = "height" -> DoubleV(FromInt(height))]

RatioArgs(r) == [k \in {"devicePixelRatio"} |-> DoubleV(r)]
FullScreenArgs(b) == [k \in {"isFullScreen"} |-> BoolV(b)]
AlwaysOnTopArgs(b) == [k \in {"isAlwaysOnTop"} |-> BoolV(b)]
TitleArgs(t) == [k \in {"title"} |-> StringV(t)]

\* a value of another alternative than v
Mistyped(v) == IF v.t = "bool" THEN DoubleV(<<1, 1>>) ELSE BoolV(TRUE)

\* m with one required key absent, or holding a value of the wrong type
Malformed(m) ==
    {[k \in DOMAIN m \ {gone} |-> m[k]] : gone \in DOMAIN m}
    \cup {[m EXCEPT ![bad] = Mistyped(@)] : bad \in DOMAIN m}

\* (width, height) pairs for SetMinimumSize / SetMaximumSize
Sizes == {<<-1, 201>>, <<301, -1>>, <<0, 0>>, <<301, 201>>}

\* well-formed argument maps
BoundsInputs == {BoundsArgs(r, LogicalRect) : r \in Ratios}
SizeInputs == {SizeArgs(r, sz[1], sz[2]) : r \in Ratios, sz \in Sizes}
RatioInputs == {RatioArgs(r) : r \in Ratios}
FullScreenInputs == {FullScreenArgs(b) : b \in BOOLEAN}
AlwaysOnTopInputs == {AlwaysOnTopArgs(b) : b \in BOOLEAN}
TitleInputs == {TitleArgs("Hello")}

\* one well-formed map per method and the malformed maps made from it
BoundsAny == LET m == BoundsArgs(<<2, 1>>, LogicalRect) IN {m} \cup Malformed(m)
SizeAny == LET m == SizeArgs(<<2, 1>>, 301, 201) IN {m} \cup Malformed(m)
RatioAny == LET m == RatioArgs(<<2, 1>>) IN {m} \cup Malformed(m)
FullScreenAny == FullScreenInputs \cup Malformed(FullScreenArgs(TRUE))
AlwaysOnTopAny == AlwaysOnTopInputs \cup Malformed(AlwaysOnTopArgs(TRUE))
TitleAny == TitleInputs \cup Malformed(TitleArgs("Hello"))

\* where the user may drop the window at the end of a drag
DropPoints == {<<100, 60>>}

\* what the uninitialized g_frame_before_fullscreen may hold
Garbage == {Rect(0, 0, 0, 0), Rect(-7, 3, 5, 11)}

\* the window the runner created: overlapped, visible, normal
InitialRect == Rect(10, 10, 1290, 730)

InitialWindow ==
    [style |-> WS_OVERLAPPEDWINDOW \cup {"WS_VISIBLE"},
     topmost |-> FALSE,
     rect |-> InitialRect,
     rcNormal |-> InitialRect,
     title |-> ""]

(***************************************************************************)
(* History kept for stating the properties.                                *)
(*   last  : the last call, its arguments and its outcome                  *)
(*   pre   : the window and the adapter when the last call started         *)
(*   prev  : the call before the last, when it returned and is one of the  *)
(*           calls a two-call property is about; the window's rectangle    *)
(*           and show state when it started                                *)
(*   prev2 : the call before that, when it was SetFullScreen(true), and    *)
(*           the window's rectangle when it started                        *)
(***************************************************************************)
ZeroRect == Rect(0, 0, 0, 0)

NoCall == [op |-> "none", args |-> EmptyMap, ret |-> Void, thrown |-> "none",
           wrote |-> FALSE]
NoPrev == [op |-> "other", args |-> EmptyMap, rect |-> ZeroRect,
           showCmd |-> SW_SHOWNORMAL]
NoPrev2 == [op |-> "other", rect |-> ZeroRect]

Paired == {"SetFullScreen", "Minimize", "Maximize", "Unmaximize", "Restore",
           "SetBounds", "SetAlwaysOnTop"}

Entered(c) == c.op = "SetFullScreen" /\ c.args["isFullScreen"].b

PrevOf(call, before) ==
    IF call.op \in Paired /\ call.thrown = "none"
    THEN [op |-> call.op, args |-> call.args,
          rect |-> IF call.op \in {"SetFullScreen", "Minimize"}
                   THEN before.win.rect ELSE ZeroRect,
          showCmd |-> IF call.op = "Minimize"
                      THEN GetWindowPlacement(before.win).showCmd
                      ELSE SW_SHOWNORMAL]
    ELSE NoPrev

Prev2Of(p) == IF Entered(p) THEN [op |-> p.op, rect |-> p.rect] ELSE NoPrev2

Init ==
    /\ win = InitialWindow
    /\ ad \in {NativeWindow(g) : g \in Garbage}
    /\ alive = TRUE
    /\ pendingShow = 0
    /\ last = NoCall
    /\ pre = [win |-> win, ad |-> ad]
    /\ prev = NoPrev
    /\ prev2 = NoPrev2

Record(op, args, out) ==
    /\ last' = [op |-> op, args |-> args, ret |-> out.ret, thrown |-> out.thrown,
                wrote |-> out.wrote]
    /\ pre' = [win |-> win, ad |-> ad]

\* a step A of a specification whose properties are about two or three
\* calls in a row, and one of a specification whose properties are about one
Pairs(A) == A /\ prev' = PrevOf(last, pre) /\ prev2' = Prev2Of(prev)
Single(A) == A /\ UNCHANGED <<prev, prev2>>

\* the host dispatches one method call; the handler runs to completion
Call(op, args, out) ==
    /\ alive
    /\ win' = out.win
    /\ ad' = out.ad
    /\ Record(op, args, out)
    /\ UNCHANGED <<alive, pendingShow>>

DoFocus == Call("Focus", EmptyMap, Focus(win, ad))
DoBlur == Call("Blur", EmptyMap, Blur(win, ad))
DoHide == Call("Hide", EmptyMap, Hide(win, ad))
DoIsVisible == Call("IsVisible", EmptyMap, IsVisible(win, ad))
DoIsMaximized == Call("IsMaximized", EmptyMap, IsMaximized(win, ad))
DoMaximize == Call("Maximize", EmptyMap, Maximize(win, ad))
DoUnmaximize == Call("Unmaximize", EmptyMap, Unmaximize(win, ad))
DoIsMinimized == Call("IsMinimized", EmptyMap, IsMinimized(win, ad))
DoMinimize == Call("Minimize", EmptyMap, Minimize(win, ad))
DoRestore == Call("Restore", EmptyMap, Restore(win, ad))
DoIsFullScreen == Call("IsFullScreen", EmptyMap, IsFullScreen(win, ad))
DoSetFullScreen(inputs) ==
    \E args \in inputs : Call("SetFullScreen", args, SetFullScreen(win, ad, args))
DoGetBounds(inputs) ==
    \E args \in inputs : Call("GetBounds", args, GetBounds(win, ad, args))
DoSetBounds(inputs) ==
    \E args \in inputs : Call("SetBounds", args, SetBounds(win, ad, args))
DoSetMinimumSize(inputs) ==
    \E args \in inputs : Call("SetMinimumSize", args, SetMinimumSize(win, ad, args))
DoSetMaximumSize(inputs) ==
    \E args \in inputs : Call("SetMaximumSize", args, SetMaximumSize(win, ad, args))
DoIsAlwaysOnTop == Call("IsAlwaysOnTop", EmptyMap, IsAlwaysOnTop(win, ad))
DoSetAlwaysOnTop(inputs) ==
    \E args \in inputs : Call("SetAlwaysOnTop", args, SetAlwaysOnTop(win, ad, args))
DoGetTitle == Call("GetTitle", EmptyMap, GetTitle(win, ad))
DoSetTitle(inputs) ==
    \E args \in inputs : Call("SetTitle", args, SetTitle(win, ad, args))
DoStartDragging ==
    \E p \in DropPoints : Call("StartDragging", EmptyMap, StartDragging(win, ad, p))

\* Show: ShowWindowAsync posts the request, SetForegroundWindow changes no
\* modelled state
DoShow ==
    /\ alive
    /\ pendingShow < MaxPending
    /\ pendingShow' = pendingShow + 1
    /\ Record("Show", EmptyMap, Returns(win, ad, Void, FALSE))
    /\ UNCHANGED <<win, ad, alive>>

\* the message loop carries out a posted ShowWindowAsync(SW_SHOW)
ProcessShow ==
    /\ alive
    /\ pendingShow > 0
    /\ pendingShow' = pendingShow - 1
    /\ win' = ShowWindow(win, SW_SHOW)
    /\ Record("ProcessShow", EmptyMap, Returns(win', ad, Void, FALSE))
    /\ UNCHANGED <<ad, alive>>

\* Terminate: ExitProcess(1)
DoTerminate ==
    /\ alive
    /\ alive' = FALSE
    /\ Record("Terminate", EmptyMap, Returns(win, ad, Void, FALSE))
    /\ UNCHANGED <<win, ad, pendingShow>>

(***************************************************************************)
(* Specifications.  In each the host calls the methods that read or write  *)
(* one part of the state, in any order, together with methods that move    *)
(* the window between its states.                                          *)
(***************************************************************************)
\* placement: position, size, show state and fullscreen
NextPlacement ==
    \/ Pairs(DoIsMaximized) \/ Pairs(DoMaximize) \/ Pairs(DoUnmaximize)
    \/ Pairs(DoIsMinimized) \/ Pairs(DoMinimize) \/ Pairs(DoRestore)
    \/ Pairs(DoIsFullScreen) \/ Pairs(DoSetFullScreen(FullScreenInputs))
    \/ Pairs(DoGetBounds(RatioInputs)) \/ Pairs(DoSetBounds(BoundsInputs))
    \/ Pairs(DoStartDragging)

SpecPlacement == Init /\ [][NextPlacement]_vars

\* the stored size constraints and the calls that size the window
NextConstraints ==
    \/ Single(DoSetMinimumSize(SizeInputs)) \/ Single(DoSetMaximumSize(SizeInputs))
    \/ Single(DoSetBounds(BoundsInputs)) \/ Single(DoGetBounds(RatioInputs))
    \/ Single(DoMaximize) \/ Single(DoUnmaximize)
    \/ Single(DoSetFullScreen(FullScreenInputs))

SpecConstraints == Init /\ [][NextConstraints]_vars

\* the topmost bit
NextTopmost ==
    \/ Pairs(DoIsAlwaysOnTop) \/ Pairs(DoSetAlwaysOnTop(AlwaysOnTopInputs))
    \/ Pairs(DoSetBounds(BoundsInputs))
    \/ Pairs(DoMaximize) \/ Pairs(DoMinimize) \/ Pairs(DoRestore)
    \/ Pairs(DoSetFullScreen(FullScreenInputs))
    \/ Pairs(DoHide) \/ Pairs(DoStartDragging)

SpecTopmost == Init /\ [][NextTopmost]_vars

\* argument decoding: every method that takes arguments, with well-formed
\* and malformed maps
NextDispatch ==
    \/ Single(DoSetFullScreen(FullScreenAny))
    \/ Single(DoGetBounds(RatioAny)) \/ Single(DoSetBounds(BoundsAny))
    \/ Single(DoSetMinimumSize(SizeAny)) \/ Single(DoSetMaximumSize(SizeAny))
    \/ Single(DoSetAlwaysOnTop(AlwaysOnTopAny))
    \/ Single(DoSetTitle(TitleAny))

SpecDispatch == Init /\ [][NextDispatch]_vars

\* visibility, title and the end of the process
NextShell ==
    \/ Single(DoFocus) \/ Single(DoBlur) \/ Single(DoShow) \/ Single(ProcessShow)
    \/ Single(DoHide) \/ Single(DoIsVisible)
    \/ Single(DoGetTitle) \/ Single(DoSetTitle(TitleInputs))
    \/ Single(DoMaximize) \/ Single(DoMinimize) \/ Single(DoRestore)
    \/ Single(DoTerminate)

SpecShell == Init /\ [][NextShell]_vars

(***************************************************************************)
(* Properties.                                                             *)
(***************************************************************************)
Returned(c) == c.thrown = "none"
Exited(c) == c.op = "SetFullScreen" /\ Returned(c) /\ ~c.args["isFullScreen"].b
ShowState(w) == GetWindowPlacement(w).showCmd

\* C1: SetFullScreen(true) directly followed by SetFullScreen(false) leaves
\* the window with the rectangle it had when SetFullScreen(true) was called.
C1_FullScreenRoundTrip ==
    (Exited(last) /\ Entered(prev)) => win.rect = prev.rect

\* C1 witness: such a pair of calls from a rectangle that is not the monitor's,
\* the exit moving the window back to it.
C1_Witness ==
    /\ Exited(last) /\ Entered(prev)
    /\ prev.rect \notin {MonitorRect, WorkRect, InitialRect}
    /\ pre.win.rect = MonitorRect
    /\ win.rect = prev.rect

\* C2 as stated: Minimize directly followed by Restore gives the window the
\* position and size it had before Minimize, whether it was normal or maximized.
C2_AsStated ==
    (last.op = "Restore" /\ prev.op = "Minimize"
        /\ prev.showCmd \in {SW_SHOWNORMAL, SW_SHOWMAXIMIZED})
    => win.rect = prev.rect

\* C2 amended: a window in the normal show state gets back the position and
\* size it had before Minimize; a maximized window is left in the normal show
\* state at its normal-position rectangle, not maximized.
C2_MinimizeRestore ==
    (last.op = "Restore" /\ prev.op = "Minimize")
    => /\ prev.showCmd = SW_SHOWNORMAL => win.rect = prev.rect
       /\ prev.showCmd = SW_SHOWMAXIMIZED =>
             /\ ShowState(win) = SW_SHOWNORMAL
             /\ win.rect = pre.win.rcNormal

\* C2 witness: Minimize then Restore of a normal window that had been moved.
C2_Witness ==
    /\ last.op = "Restore" /\ prev.op = "Minimize"
    /\ prev.showCmd = SW_SHOWNORMAL
    /\ ShowState(pre.win) = SW_SHOWMINIMIZED
    /\ win.rect = prev.rect
    /\ win.rect # InitialRect

\* C3: Maximize, Unmaximize, Minimize and Restore are idempotent: called
\* directly after itself, each leaves the window and the adapter as they
\* were and does not call SetWindowPlacement.
C3_Idempotent ==
    (last.op \in {"Maximize", "Unmaximize", "Minimize", "Restore"}
        /\ prev.op = last.op)
    => /\ win = pre.win
       /\ ad = pre.ad
       /\ ~last.wrote

\* C3 witness: a second Maximize on the window the first one maximized.
C3_Witness ==
    /\ last.op = "Maximize" /\ prev.op = "Maximize"
    /\ ShowState(win) = SW_SHOWMAXIMIZED
    /\ ~last.wrote

\* n = int(x * r) for the fractions x and r, stated without computing it
IsTruncOfProduct(n, x, r) ==
    LET p == x[1] * r[1]
        q == x[2] * r[2]
    IN  IF p >= 0 THEN n * q <= p /\ p < (n + 1) * q
        ELSE (n - 1) * q < p /\ p <= n * q

\* x * r is an integer
ScalesToInt(x, r) == (x[1] * r[1]) % (x[2] * r[2]) = 0

\* the fraction f times r equals the integer n
TimesIs(f, r, n) == f[1] * r[1] = n * f[2] * r[2]

\* C7: SetBounds puts the window at the logical values times the ratio,
\* truncated; GetBounds returns the physical rectangle divided by the ratio;
\* SetBounds then GetBounds with one ratio returns the logical values given
\* when their scaled values are integers.
C7_BoundsScaling ==
    /\ (last.op = "SetBounds" /\ Returned(last)) =>
          LET r == last.args["devicePixelRatio"].d IN
          /\ IsTruncOfProduct(win.rect.left, last.args["x"].d, r)
          /\ IsTruncOfProduct(win.rect.top, last.args["y"].d, r)
          /\ IsTruncOfProduct(win.rect.right - win.rect.left, last.args["width"].d, r)
          /\ IsTruncOfProduct(win.rect.bottom - win.rect.top, last.args["height"].d, r)
    /\ (last.op = "GetBounds" /\ Returned(last)) =>
          LET r == last.args["devicePixelRatio"].d
              m == last.ret.m
          IN  /\ DOMAIN m = {"x", "y", "width", "height"}
              /\ TimesIs(m["x"].d, r, win.rect.left)
              /\ TimesIs(m["y"].d, r, win.rect.top)
              /\ TimesIs(m["width"].d, r, win.rect.right - win.rect.left)
              /\ TimesIs(m["height"].d, r, win.rect.bottom - win.rect.top)
    /\ (last.op = "GetBounds" /\ Returned(last) /\ prev.op = "SetBounds"
          /\ prev.args["devicePixelRatio"] = last.args["devicePixelRatio"]
          /\ \A k \in {"x", "y", "width", "height"} :
                ScalesToInt(prev.args[k].d, prev.args["devicePixelRatio"].d))
       => \A k \in {"x", "y", "width", "height"} : last.ret.m[k] = prev.args[k]

\* C7 witness: a round trip at ratio 2 giving back the logical rectangle.
C7_Witness ==
    /\ last.op = "GetBounds" /\ Returned(last) /\ prev.op = "SetBounds"
    /\ last.args["devicePixelRatio"].d = <<2, 1>>
    /\ prev.args["devicePixelRatio"].d = <<2, 1>>
    /\ win.rect = Rect(50, -50, 450, 250)
    /\ last.ret.m["x"].d = <<25, 1>> /\ last.ret.m["y"].d = <<-25, 1>>
    /\ last.ret.m["width"].d = <<200, 1>> /\ last.ret.m["height"].d = <<150, 1>>

\* C8: the fullscreen flag is false in every reachable state and
\* IsFullScreen returns false, also after SetFullScreen(true).
C8_FlagNeverSet ==
    /\ ad.g_is_window_fullscreen = FALSE
    /\ last.op = "IsFullScreen" => last.ret = BoolRet(FALSE)

\* C8 witness: IsFullScreen answering false directly after SetFullScreen(true).
C8_Witness ==
    /\ last.op = "IsFullScreen" /\ Entered(prev)
    /\ last.ret = BoolRet(FALSE)
    /\ "WS_POPUP" \in win.style

\* C9: the pre-fullscreen rectangle is written by SetFullScreen(true) and by
\* no other call, with the window's rectangle at that call, also when the
\* window is already fullscreen; after SetFullScreen(true) twice and then
\* SetFullScreen(false) the window has the rectangle it had at the second
\* entry, which is the monitor's.
C9_FrameOverwritten ==
    /\ ad.g_frame_before_fullscreen # pre.ad.g_frame_before_fullscreen
          => (Entered(last) /\ Returned(last))
    /\ (Entered(last) /\ Returned(last))
          => ad.g_frame_before_fullscreen = pre.win.rect
    /\ (Exited(last) /\ Entered(prev) /\ prev2.op = "SetFullScreen")
          => (win.rect = prev.rect /\ win.rect = MonitorRect)

\* C9 witness: enter, enter, exit, ending on the monitor's rectangle and not
\* on the rectangle the window had before the first entry.
C9_Witness ==
    /\ Exited(last) /\ Entered(prev) /\ prev2.op = "SetFullScreen"
    /\ win.rect = MonitorRect
    /\ prev2.rect # MonitorRect
    /\ win.rect # prev2.rect

\* the pair (x, y) is (int(width * r), int(height * r)) of a size call
IsScaledPair(pt, args) ==
    /\ IsTruncOfProduct(pt.x, args["width"].d, args["devicePixelRatio"].d)
    /\ IsTruncOfProduct(pt.y, args["height"].d, args["devicePixelRatio"].d)

Negative(args) == args["width"].d[1] < 0 \/ args["height"].d[1] < 0

\* C4: SetMinimumSize, and SetMaximumSize, with a negative width or height
\* leaves the stored pair as it was, and with both non-negative stores
\* (int(width * ratio), int(height * ratio)); no other call writes the pairs,
\* which start as (0, 0) and (-1, -1).
C4_SizeConstraintStored ==
    /\ last.op = "none" =>
          (ad.minimum_size = POINT(0, 0) /\ ad.maximum_size = POINT(-1, -1))
    /\ IF last.op = "SetMinimumSize" /\ Returned(last) /\ ~Negative(last.args)
       THEN IsScaledPair(ad.minimum_size, last.args)
       ELSE ad.minimum_size = pre.ad.minimum_size
    /\ IF last.op = "SetMaximumSize" /\ Returned(last) /\ ~Negative(last.args)
       THEN IsScaledPair(ad.maximum_size, last.args)
       ELSE ad.maximum_size = pre.ad.maximum_size

\* C4 witness: SetMinimumSize with a negative width keeping a minimum that an
\* earlier call stored truncated, (int(301 * 1.5), int(201 * 1.5)).
C4_Witness ==
    /\ last.op = "SetMinimumSize" /\ Returned(last)
    /\ last.args["width"].d[1] < 0
    /\ pre.ad.minimum_size = POINT(451, 301)
    /\ ad.minimum_size = POINT(451, 301)

\* the argument keys and types each method requires
Required(op) ==
    CASE op = "SetFullScreen" -> {<<"isFullScreen", "bool">>}
      [] op = "GetBounds" -> {<<"devicePixelRatio", "double">>}
      [] op = "SetBounds" -> {<<"devicePixelRatio", "double">>, <<"x", "double">>,
                              <<"y", "double">>, <<"width", "double">>,
                              <<"height", "double">>}
      [] op \in {"SetMinimumSize", "SetMaximumSize"} ->
            {<<"devicePixelRatio", "double">>, <<"width", "double">>,
             <<"height", "double">>}
      [] op = "SetAlwaysOnTop" -> {<<"isAlwaysOnTop", "bool">>}
      [] op = "SetTitle" -> {<<"title", "string">>}
      [] OTHER -> {}

WellFormed(op, args) ==
    \A kt \in Required(op) : kt[1] \in DOMAIN args /\ args[kt[1]].t = kt[2]

\* C5: a call whose argument map lacks a required key or holds a value of
\* the wrong type fails with InvalidArgument and leaves the window and the
\* adapter as they were.
C5_InvalidArgument ==
    (last.op # "none" /\ ~WellFormed(last.op, last.args))
    => /\ last.thrown = "InvalidArgument"
       /\ win = pre.win
       /\ ad = pre.ad

\* what the handlers do with such a call: a standard-library exception
\* leaves the handler before it has touched the window or the adapter
DecodeFailure ==
    (last.op # "none" /\ ~WellFormed(last.op, last.args))
    => /\ last.thrown \in {"std::out_of_range", "std::bad_variant_access"}
       /\ win = pre.win
       /\ ad = pre.ad

\* C6: IsAlwaysOnTop directly after SetAlwaysOnTop(b) returns b, and
\* SetAlwaysOnTop(b) changes the topmost bit to b and nothing else of the
\* window or the adapter.
C6_AlwaysOnTop ==
    /\ (last.op = "IsAlwaysOnTop" /\ prev.op = "SetAlwaysOnTop")
          => last.ret = BoolRet(prev.args["isAlwaysOnTop"].b)
    /\ (last.op = "SetAlwaysOnTop" /\ Returned(last))
          => /\ win = [pre.win EXCEPT !.topmost = last.args["isAlwaysOnTop"].b]
             /\ ad = pre.ad

\* C6 witness: SetAlwaysOnTop(false) on a topmost, maximized window, then
\* IsAlwaysOnTop answering false.
C6_Witness ==
    /\ last.op = "IsAlwaysOnTop" /\ prev.op = "SetAlwaysOnTop"
    /\ ~prev.args["isAlwaysOnTop"].b
    /\ last.ret = BoolRet(FALSE)
    /\ ShowState(win) = SW_SHOWMAXIMIZED
    /\ win.rect # InitialRect

\* the adapter with the size constraints it is constructed with
Unconstrained(a) ==
    [a EXCEPT !.minimum_size = POINT(0, 0), !.maximum_size = POINT(-1, -1)]

\* what a call does from window w and adapter a
Outcome(op, args, w, a) ==
    CASE op = "SetBounds" -> SetBounds(w, a, args)
      [] op = "GetBounds" -> GetBounds(w, a, args)
      [] op = "Maximize" -> Maximize(w, a)
      [] op = "Unmaximize" -> Unmaximize(w, a)
      [] op = "SetFullScreen" -> SetFullScreen(w, a, args)

Width(r) == r.right - r.left
Height(r) == r.bottom - r.top

\* C10: SetMinimumSize and SetMaximumSize change the stored pair and nothing
\* else; every other call leaves the window and returns what it would with
\* no constraint stored; SetBounds gives the size asked for, Maximize the
\* maximized rectangle and SetFullScreen(true) the monitor's, whatever the
\* stored pairs are.
C10_ConstraintsInert ==
    /\ (last.op = "SetMinimumSize") =>
          (win = pre.win /\ ad = [pre.ad EXCEPT !.minimum_size = ad.minimum_size])
    /\ (last.op = "SetMaximumSize") =>
          (win = pre.win /\ ad = [pre.ad EXCEPT !.maximum_size = ad.maximum_size])
    /\ (last.op \in {"SetBounds", "GetBounds", "Maximize", "Unmaximize", "SetFullScreen"}) =>
          LET o == Outcome(last.op, last.args, pre.win, Unconstrained(pre.ad)) IN
          /\ win = o.win
          /\ last.ret = o.ret
          /\ ad.g_frame_before_fullscreen = o.ad.g_frame_before_fullscreen
    /\ (last.op = "SetBounds") =>
          /\ IsTruncOfProduct(Width(win.rect), last.args["width"].d,
                              last.args["devicePixelRatio"].d)
          /\ IsTruncOfProduct(Height(win.rect), last.args["height"].d,
                              last.args["devicePixelRatio"].d)
    /\ (last.op = "Maximize" /\ last.wrote) => win.rect = MaximizedRect(pre.win.style)
    /\ Entered(last) => win.rect = MonitorRect

\* C10 witness: SetBounds making the window narrower than the stored minimum
\* and wider than the stored maximum.
C10_Witness ==
    /\ last.op = "SetBounds"
    /\ Width(win.rect) < ad.minimum_size.x
    /\ ad.maximum_size.x >= 0
    /\ Width(win.rect) > ad.maximum_size.x
    /\ Height(win.rect) < ad.minimum_size.y

====
